---- MODULE Spec2Model ----
(***************************************************************************)
(* The configuration layer of the forward plugin (plugin/forward/setup.go): *)
(* setup, parseForward, parseStanza, parseBlock and the OnStartup /         *)
(* OnShutdown hooks, as a state machine over the Corefile tokens the caddy  *)
(* controller hands out.                                                    *)
(*                                                                          *)
(* Text that the code inspects byte by byte (the except_file content, the   *)
(* names of the exclusion list) is a sequence of one-character strings.     *)
(* Tokens that the code only compares or converts (option names, numbers,   *)
(* durations) are strings.  Durations are in milliseconds.                  *)
(***************************************************************************)
EXTENDS Integers, Sequences, FiniteSets, TLC

VARIABLES
    pc,            \* where the host is: "parseForward", "parseBlock", "setup", "returned"
    disk,          \* content of the file an except_file option names (bytes)
    cfg,           \* the Corefile tokens consumed so far, stanza by stanza
    f,             \* parseStanza's Forward under construction
    transports,    \* parseStanza's local slice of transport tags
    fs,            \* parseForward's slice of parsed Forwards (the engines)
    i,             \* setup's loop index over fs
    ret,           \* what setup returned: "none" (running), "nil", "error"
    plugins,       \* dnsserver config: engines added with AddPlugin
    startupHooks,  \* controller: engines whose OnStartup closure is registered
    shutdownHooks, \* controller: engines whose OnShutdown closure is registered
    nextId,        \* allocator of policy objects
    su,            \* startup hooks the host has run
    sd             \* shutdown hooks the host has run

vars == <<pc, disk, cfg, f, transports, fs, i, ret, plugins, startupHooks,
          shutdownHooks, nextId, su, sd>>

----------------------------------------------------------------------------
(* Bounds of the model *)

MaxStanzas == 2
MaxOpts == 3
MaxFileLen == 5

(* const max = 15 // Maximum number of upstreams. *)
max == 15

----------------------------------------------------------------------------
(* Sequences *)

Range(s) == {s[k] : k \in DOMAIN s}

RECURSIVE SeqsUpTo(_, _)
SeqsUpTo(S, n) ==
    IF n = 0 THEN {<<>>}
    ELSE LET shorter == SeqsUpTo(S, n - 1)
         IN  shorter \cup {Append(s, x) : s \in {t \in shorter : Len(t) = n - 1}, x \in S}

RECURSIVE Repeat(_, _)
Repeat(x, n) == IF n = 0 THEN <<>> ELSE Append(Repeat(x, n - 1), x)

Last(s) == s[Len(s)]

----------------------------------------------------------------------------
(* Conversions of tokens *)

(* strconv.Atoi on the decimal tokens of the model; any other token is an  *)
(* error.                                                                   *)
Atoi(tok) ==
    IF \E n \in -2 .. (max + 2) : ToString(n) = tok
    THEN [ok |-> TRUE, n |-> CHOOSE n \in -2 .. (max + 2) : ToString(n) = tok]
    ELSE [ok |-> FALSE, n |-> 0]

(* time.ParseDuration on tokens "<n>s"; the result is in milliseconds.     *)
ParseDuration(tok) ==
    IF \E n \in -2 .. 9 : ToString(n) \o "s" = tok
    THEN [ok |-> TRUE, dur |-> 1000 * (CHOOSE n \in -2 .. 9 : ToString(n) \o "s" = tok)]
    ELSE [ok |-> FALSE, dur |-> 0]

ToLower(ch) ==
    CASE ch = "A" -> "a"
      [] ch = "B" -> "b"
      [] OTHER -> ch

(* plugin.Host(s).Normalize(): lower case, fully qualified (a trailing dot *)
(* is added unless there is one).  The empty name becomes the root ".".    *)
Normalize(s) ==
    LET lower == [k \in DOMAIN s |-> ToLower(s[k])]
    IN  IF Len(lower) > 0 /\ Last(lower) = "." THEN lower ELSE Append(lower, ".")

(* parse.Transport(host): the transport tag of a destination and the host  *)
(* without it; a destination without a tag is plain dns.                    *)
Transport(host) ==
    [trans |-> IF host.scheme = "" THEN "dns" ELSE host.scheme, h |-> host.addr]

(* parse.HostPortOrFile(to...): the destinations, or an error when one of  *)
(* them is no host.                                                         *)
HostPortOrFile(to) ==
    IF \E k \in DOMAIN to : to[k].addr = ""
    THEN [ok |-> FALSE, hosts |-> <<>>]
    ELSE [ok |-> TRUE, hosts |-> to]

----------------------------------------------------------------------------
(* The except_file scan (parseBlock, case "except_file") *)

IsSpace(ch) == ch \in {" ", "\t"}

(* strings.Split(s, sep) for a one-byte separator: always at least one     *)
(* piece, empty pieces kept.                                                *)
Split(s, sep) ==
    LET P[k \in 0 .. Len(s)] ==
            IF k = 0 THEN << <<>> >>
            ELSE LET prev == P[k - 1]
                 IN  IF s[k] = sep THEN Append(prev, <<>>)
                     ELSE [prev EXCEPT ![Len(prev)] = Append(@, s[k])]
    IN  P[Len(s)]

(* bufio.Scanner with the default ScanLines: the pieces between newlines;  *)
(* the empty piece after the last newline is no line.                       *)
ScanLines(content) ==
    LET p == Split(content, "\n")
    IN  IF Last(p) = <<>> THEN SubSeq(p, 1, Len(p) - 1) ELSE p

(* bytes.Index(line, "#"): the 0-based position of the first '#', or -1.   *)
Index(line, ch) ==
    IF \E k \in DOMAIN line : line[k] = ch
    THEN (CHOOSE k \in DOMAIN line : line[k] = ch /\ \A j \in 1 .. (k - 1) : line[j] # ch) - 1
    ELSE -1

(* bytes.Fields(line): the maximal runs of non-space bytes.                *)
Fields(line) ==
    LET P[k \in 0 .. Len(line)] ==
            IF k = 0 THEN << <<>> >>
            ELSE LET prev == P[k - 1]
                 IN  IF IsSpace(line[k]) THEN Append(prev, <<>>)
                     ELSE [prev EXCEPT ![Len(prev)] = Append(@, line[k])]
    IN  SelectSeq(P[Len(line)], LAMBDA x : x # <<>>)

(* Lines 161-165: the line with its comment discarded.                     *)
DiscardComment(line) ==
    LET k == Index(line, "#")
    IN  IF k >= 0 THEN SubSeq(line, 1, k) ELSE line

(* LineDomains taking the first part of a triplet, the label.              *)
LineDomainsLabel(line) ==
    LET fields == Fields(DiscardComment(line))
    IN  IF Len(fields) # 1 THEN <<>>
        ELSE LET splits == Split(fields[1], "/")
             IN  IF Len(splits) = 1 THEN <<splits[1]>>
                 ELSE IF Len(splits) = 3 THEN <<splits[1]>>
                 ELSE <<>>

(* Lines 166-178 for one line: the domains (none or one) the line hands to *)
(* normalization.                                                           *)
LineDomains(line) ==
    LET fields == Fields(DiscardComment(line))
    IN  IF Len(fields) # 1 THEN <<>>
        ELSE LET splits == Split(fields[1], "/")
             IN  IF Len(splits) = 1 THEN <<splits[1]>>
                 ELSE IF Len(splits) = 3 THEN <<splits[2]>>
                 ELSE <<>>

(* Lines 159-180: the domains the scan hands to normalization, in order.   *)
ExceptFileDomains(content) ==
    LET lines == ScanLines(content)
        D[k \in 0 .. Len(lines)] ==
            IF k = 0 THEN <<>> ELSE D[k - 1] \o LineDomains(lines[k])
    IN  D[Len(lines)]

----------------------------------------------------------------------------
(* Engines and targets *)

NoForward == [index |-> -1]

(* New(): a Forward with its defaults and a policy object of its own.      *)
New(id) ==
    [index |-> 0, from |-> <<".">>, proxies |-> <<>>, ignored |-> <<>>,
     maxfails |-> 2, hcInterval |-> 500,
     opts |-> [forceTCP |-> FALSE, preferUDP |-> FALSE, hcRecursionDesired |-> TRUE],
     tlsConfig |-> [ServerName |-> "", nargs |-> 0], tlsServerName |-> "",
     expire |-> 10000, p |-> [kind |-> "random", id |-> id],
     maxConcurrent |-> 0, ErrLimitExceeded |-> "", maxFailedTries |-> 0]

(* NewProxy(h, trans): a target that has no TLS configuration yet and has  *)
(* not been started.                                                        *)
NewProxy(h, trans) ==
    [addr |-> h, trans |-> trans, tlsConfig |-> <<>>, expire |-> 10000,
     rd |-> TRUE, starts |-> 0, interval |-> -1, stops |-> 0]

(* f.Len(): the number of targets.                                         *)
ForwardLen(fw) == Len(fw.proxies)

(* pkgtls.NewTLSConfigFromArgs(args...): a fresh configuration without a   *)
(* server name, or an error when a named file cannot be loaded.             *)
NewTLSConfigFromArgs(args) ==
    IF \E k \in DOMAIN args : args[k] = "nofile"
    THEN [ok |-> FALSE, cfg |-> [ServerName |-> "", nargs |-> 0]]
    ELSE [ok |-> TRUE, cfg |-> [ServerName |-> "", nargs |-> Len(args)]]

(* os.Open(path): only the path "file" exists; its content is disk.        *)
Open(path) == path = "file"

Policies == {"random", "round_robin", "sequential"}

Fail(fw, nid) == [ok |-> FALSE, f |-> fw, nid |-> nid]
Done(fw, nid) == [ok |-> TRUE, f |-> fw, nid |-> nid]

(* parseBlock, case "except" *)
ParseExcept(fw, o, nid) ==
    IF Len(o.names) = 0 THEN Fail(fw, nid)
    ELSE Done([fw EXCEPT !.ignored =
                   @ \o [k \in DOMAIN o.names |-> Normalize(o.names[k])]], nid)

(* parseBlock, case "except_file" *)
ParseExceptFile(fw, o, nid, content) ==
    IF Len(o.args) # 1 THEN Fail(fw, nid)
    ELSE IF ~Open(o.args[1]) THEN Fail(fw, nid)
    ELSE LET domains == ExceptFileDomains(content)
         IN  Done([fw EXCEPT !.ignored =
                       @ \o [k \in DOMAIN domains |-> Normalize(domains[k])]], nid)

(* parseBlock, case "max_fails" *)
ParseMaxFails(fw, o, nid) ==
    IF Len(o.args) = 0 THEN Fail(fw, nid)
    ELSE LET a == Atoi(o.args[1])
         IN  IF ~a.ok THEN Fail(fw, nid)
             ELSE IF a.n < 0 THEN Fail(fw, nid)
             ELSE Done([fw EXCEPT !.maxfails = a.n], nid)

(* parseBlock, case "health_check" *)
ParseHealthCheck(fw, o, nid) ==
    IF Len(o.args) = 0 THEN Fail(fw, nid)
    ELSE LET d == ParseDuration(o.args[1])
         IN  IF ~d.ok THEN Fail(fw, nid)
             ELSE IF d.dur < 0 THEN Fail(fw, nid)
             ELSE IF \E k \in 2 .. Len(o.args) : o.args[k] # "no_rec"
                  THEN Fail(fw, nid)
             ELSE Done([fw EXCEPT !.hcInterval = d.dur,
                                  !.opts.hcRecursionDesired =
                                      IF Len(o.args) >= 2 THEN FALSE ELSE @], nid)

(* parseBlock, case "force_tcp" *)
ParseForceTCP(fw, o, nid) ==
    IF Len(o.args) > 0 THEN Fail(fw, nid)
    ELSE Done([fw EXCEPT !.opts.forceTCP = TRUE], nid)

(* ParsePreferUDP taking force-TCP back.                                   *)
ParsePreferUDPClearsTCP(fw, o, nid) ==
    IF Len(o.args) > 0 THEN Fail(fw, nid)
    ELSE Done([fw EXCEPT !.opts.preferUDP = TRUE, !.opts.forceTCP = FALSE], nid)

(* parseBlock, case "prefer_udp" *)
ParsePreferUDP(fw, o, nid) ==
    IF Len(o.args) > 0 THEN Fail(fw, nid)
    ELSE Done([fw EXCEPT !.opts.preferUDP = TRUE], nid)

(* ParseTLS taking the server name from the new configuration.             *)
ParseTLSResetsServerName(fw, o, nid) ==
    IF Len(o.args) > 3 THEN Fail(fw, nid)
    ELSE LET t == NewTLSConfigFromArgs(o.args)
         IN  IF ~t.ok THEN Fail(fw, nid)
             ELSE Done([fw EXCEPT !.tlsConfig = t.cfg,
                                  !.tlsServerName = t.cfg.ServerName], nid)

(* parseBlock, case "tls" *)
ParseTLS(fw, o, nid) ==
    IF Len(o.args) > 3 THEN Fail(fw, nid)
    ELSE LET t == NewTLSConfigFromArgs(o.args)
         IN  IF ~t.ok THEN Fail(fw, nid)
             ELSE Done([fw EXCEPT !.tlsConfig = t.cfg], nid)

(* parseBlock, case "tls_servername" *)
ParseTLSServerName(fw, o, nid) ==
    IF Len(o.args) = 0 THEN Fail(fw, nid)
    ELSE Done([fw EXCEPT !.tlsServerName = o.args[1]], nid)

(* parseBlock, case "expire" *)
ParseExpire(fw, o, nid) ==
    IF Len(o.args) = 0 THEN Fail(fw, nid)
    ELSE LET d == ParseDuration(o.args[1])
         IN  IF ~d.ok THEN Fail(fw, nid)
             ELSE IF d.dur < 0 THEN Fail(fw, nid)
             ELSE Done([fw EXCEPT !.expire = d.dur], nid)

(* ParsePolicy handing out one policy object for all engines.              *)
ParsePolicyShared(fw, o, nid) ==
    IF Len(o.args) = 0 THEN Fail(fw, nid)
    ELSE IF o.args[1] \in Policies
         THEN Done([fw EXCEPT !.p = [kind |-> o.args[1], id |-> 0]], nid)
         ELSE Fail(fw, nid)

(* parseBlock, case "policy": each accepted name allocates a policy object *)
ParsePolicy(fw, o, nid) ==
    IF Len(o.args) = 0 THEN Fail(fw, nid)
    ELSE IF o.args[1] \in Policies
         THEN Done([fw EXCEPT !.p = [kind |-> o.args[1], id |-> nid]], nid + 1)
         ELSE Fail(fw, nid)

(* parseBlock, case "max_concurrent" *)
ParseMaxConcurrent(fw, o, nid) ==
    IF Len(o.args) = 0 THEN Fail(fw, nid)
    ELSE LET a == Atoi(o.args[1])
         IN  IF ~a.ok THEN Fail(fw, nid)
             ELSE IF a.n < 0 THEN Fail(fw, nid)
             ELSE Done([fw EXCEPT !.ErrLimitExceeded =
                                      "concurrent queries exceeded maximum " \o o.args[1],
                                  !.maxConcurrent = a.n], nid)

(* ParseRetryFailed without the comparison with the number of targets.     *)
ParseRetryFailedUnbounded(fw, o, nid) ==
    IF Len(o.args) = 0 THEN Fail(fw, nid)
    ELSE LET a == Atoi(o.args[1])
         IN  IF ~a.ok THEN Fail(fw, nid)
             ELSE IF a.n < 0 THEN Fail(fw, nid)
             ELSE Done([fw EXCEPT !.maxFailedTries = a.n], nid)

(* parseBlock, case "retry_failed" *)
ParseRetryFailed(fw, o, nid) ==
    IF Len(o.args) = 0 THEN Fail(fw, nid)
    ELSE LET a == Atoi(o.args[1])
         IN  IF ~a.ok THEN Fail(fw, nid)
             ELSE IF a.n < 0 THEN Fail(fw, nid)
             ELSE IF a.n > Len(fw.proxies) THEN Fail(fw, nid)
             ELSE Done([fw EXCEPT !.maxFailedTries = a.n], nid)

(* parseBlock(c, f): the switch on the option name.  The result says       *)
(* whether an error was returned, and holds the Forward and the allocator. *)
ParseBlock(fw, o, nid, content) ==
    CASE o.name = "except" -> ParseExcept(fw, o, nid)
      [] o.name = "except_file" -> ParseExceptFile(fw, o, nid, content)
      [] o.name = "max_fails" -> ParseMaxFails(fw, o, nid)
      [] o.name = "health_check" -> ParseHealthCheck(fw, o, nid)
      [] o.name = "force_tcp" -> ParseForceTCP(fw, o, nid)
      [] o.name = "prefer_udp" -> ParsePreferUDP(fw, o, nid)
      [] o.name = "tls" -> ParseTLS(fw, o, nid)
      [] o.name = "tls_servername" -> ParseTLSServerName(fw, o, nid)
      [] o.name = "expire" -> ParseExpire(fw, o, nid)
      [] o.name = "policy" -> ParsePolicy(fw, o, nid)
      [] o.name = "max_concurrent" -> ParseMaxConcurrent(fw, o, nid)
      [] o.name = "retry_failed" -> ParseRetryFailed(fw, o, nid)
      [] OTHER -> Fail(fw, nid)

(* parseStanza lines 86-115: the zone, the destinations and their targets. *)
(* The result says whether an error was returned.                           *)
ParseHead(st, nid) ==
    LET fw == New(nid) IN
    IF Len(st.from) = 0 THEN [ok |-> FALSE, f |-> fw, transports |-> <<>>]
    ELSE IF Len(st.to) = 0 THEN [ok |-> FALSE, f |-> fw, transports |-> <<>>]
    ELSE LET r == HostPortOrFile(st.to) IN
         IF ~r.ok THEN [ok |-> FALSE, f |-> fw, transports |-> <<>>]
         ELSE LET tr == [k \in DOMAIN r.hosts |-> Transport(r.hosts[k])] IN
              IF \E k \in DOMAIN tr : tr[k].trans \notin {"dns", "tls"}
              THEN [ok |-> FALSE, f |-> fw, transports |-> <<>>]
              ELSE [ok |-> TRUE,
                    f |-> [fw EXCEPT !.from = Normalize(st.from[1]),
                                     !.proxies = [k \in DOMAIN tr |->
                                                     NewProxy(tr[k].h, tr[k].trans)]],
                    transports |-> [k \in DOMAIN tr |-> tr[k].trans]]

(* Propagate giving the TLS configuration to every target.                 *)
PropagateTLSToAll(fw, trs) ==
    LET tc == IF fw.tlsServerName # ""
              THEN [fw.tlsConfig EXCEPT !.ServerName = fw.tlsServerName]
              ELSE fw.tlsConfig
    IN  [fw EXCEPT !.tlsConfig = tc,
                   !.proxies = [k \in DOMAIN fw.proxies |->
                       [fw.proxies[k] EXCEPT
                           !.tlsConfig = <<tc>>,
                           !.expire = fw.expire,
                           !.rd = fw.opts.hcRecursionDesired]]]

(* parseStanza lines 123-133: the server name goes into the TLS            *)
(* configuration, and every target gets its settings.                      *)
Propagate(fw, trs) ==
    LET tc == IF fw.tlsServerName # ""
              THEN [fw.tlsConfig EXCEPT !.ServerName = fw.tlsServerName]
              ELSE fw.tlsConfig
    IN  [fw EXCEPT !.tlsConfig = tc,
                   !.proxies = [k \in DOMAIN fw.proxies |->
                       [fw.proxies[k] EXCEPT
                           !.tlsConfig = IF trs[k] = "tls" THEN <<tc>> ELSE @,
                           !.expire = fw.expire,
                           !.rd = fw.opts.hcRecursionDesired]]]

(* OnStartup starting the targets with the default probe interval.         *)
OnStartupDefaultInterval(fw) ==
    [fw EXCEPT !.proxies = [k \in DOMAIN fw.proxies |->
        [fw.proxies[k] EXCEPT !.starts = @ + 1, !.interval = New(0).hcInterval]]]

(* Forward.OnStartup: p.start(f.hcInterval) for every target.           *)
OnStartup(fw) ==
    [fw EXCEPT !.proxies = [k \in DOMAIN fw.proxies |->
        [fw.proxies[k] EXCEPT !.starts = @ + 1, !.interval = fw.hcInterval]]]

(* Forward.OnShutdown: p.stop() for every target.                       *)
OnShutdown(fw) ==
    [fw EXCEPT !.proxies = [k \in DOMAIN fw.proxies |->
        [fw.proxies[k] EXCEPT !.stops = @ + 1]]]

----------------------------------------------------------------------------
(* The Corefile tokens the specifications draw from *)

Host(scheme, addr) == [scheme |-> scheme, addr |-> addr]
Stanza(from, to) == [from |-> from, to |-> to]
Opt(name, args) == [name |-> name, args |-> args, names |-> <<>>]
OptNames(name, names) == [name |-> name, args |-> <<>>, names |-> names]

Zone == << <<"a", "B">> >>
Plain == Host("", "10.0.0.1")
Dns == Host("dns", "10.0.0.2")
Tls == Host("tls", "10.0.0.3")
Grpc == Host("grpc", "10.0.0.4")
NoHost == Host("", "")

(* Destination lists around the limit, and every way a stanza head fails.  *)
StanzasLimits ==
    {Stanza(Zone, <<Plain>>), Stanza(Zone, Repeat(Plain, max)),
     Stanza(Zone, Repeat(Plain, max + 1)), Stanza(Zone, <<Dns, Grpc>>),
     Stanza(<<>>, <<>>), Stanza(Zone, <<>>), Stanza(Zone, <<Plain, NoHost>>)}

StanzasMixed ==
    {Stanza(Zone, <<Plain>>), Stanza(Zone, <<Tls>>), Stanza(Zone, <<Dns, Tls>>),
     Stanza(Zone, <<Tls, Plain, Tls>>)}

StanzasPair == {Stanza(Zone, <<Plain>>), Stanza(Zone, <<Tls, Dns>>)}

StanzasLife == {Stanza(Zone, <<Tls, Dns>>), Stanza(Zone, Repeat(Plain, max + 1))}

OptsLimits ==
    {Opt("max_fails", <<"-1">>), Opt("health_check", <<"-1s">>),
     Opt("expire", <<"-1s">>), Opt("max_concurrent", <<"-1">>),
     Opt("max_concurrent", <<"4">>), Opt("retry_failed", <<"-1">>),
     Opt("retry_failed", <<"1">>), Opt("retry_failed", <<"2">>)}

OptsTransport ==
    {Opt("force_tcp", <<>>), Opt("force_tcp", <<"on">>), Opt("prefer_udp", <<>>),
     Opt("prefer_udp", <<"on">>), Opt("tls", <<>>), Opt("tls", <<"cert", "key">>),
     Opt("tls", <<"nofile">>), Opt("tls", <<"cert", "key", "ca", "more">>),
     Opt("tls_servername", <<>>), Opt("tls_servername", <<"sn1">>),
     Opt("tls_servername", <<"sn2">>), Opt("expire", <<"5s">>), Opt("expire", <<"x">>),
     Opt("health_check", <<"1s">>), Opt("health_check", <<"2s", "no_rec">>),
     Opt("health_check", <<"2s", "rec">>)}

OptsLife ==
    {Opt("policy", <<>>), Opt("policy", <<"random">>), Opt("policy", <<"round_robin">>),
     Opt("policy", <<"sequential">>), Opt("policy", <<"first">>),
     Opt("health_check", <<"1s">>)}

OptsOrder ==
    {OptNames("except", <<<<"B">>>>), Opt("except_file", <<"file">>),
     Opt("max_fails", <<"0">>), Opt("max_fails", <<"-1">>),
     Opt("health_check", <<"2s", "no_rec">>), Opt("force_tcp", <<>>),
     Opt("prefer_udp", <<>>), Opt("tls", <<"cert", "key">>),
     Opt("tls_servername", <<"sn1">>), Opt("expire", <<"5s">>),
     Opt("policy", <<"round_robin">>), Opt("max_concurrent", <<"4">>),
     Opt("retry_failed", <<"2">>)}

OptsFile == {Opt("except_file", <<"file">>), Opt("except_file", <<>>),
             Opt("except_file", <<"missing">>)}

FileBytes == {"a", "B", "/", "#", " ", "\n"}
FilesAll == SeqsUpTo(FileBytes, MaxFileLen)
FilesOne == {<<"a", "\n", "x", "/", "B", "/", "y", "\n">>}

----------------------------------------------------------------------------
(* The state machine *)

NumOpts == LET N[k \in 0 .. Len(cfg)] ==
                   IF k = 0 THEN 0 ELSE N[k - 1] + Len(cfg[k].block)
           IN  N[Len(cfg)]

InitWith(Files) ==
    /\ pc = "parseForward"
    /\ disk \in Files
    /\ cfg = <<>>
    /\ f = NoForward
    /\ transports = <<>>
    /\ fs = <<>>
    /\ i = 0
    /\ ret = "none"
    /\ plugins = <<>>
    /\ startupHooks = <<>>
    /\ shutdownHooks = <<>>
    /\ nextId = 1
    /\ su = 0
    /\ sd = 0

(* parseStanza or parseBlock returned an error: parseForward returns       *)
(* nil, err and setup returns the error.                                    *)
ParseFails ==
    /\ f' = NoForward
    /\ transports' = <<>>
    /\ fs' = <<>>
    /\ ret' = "error"
    /\ pc' = "returned"

(* parseForward: c.Next() finds one more forward stanza; parseStanza reads *)
(* its head.                                                                *)
NextStanza(Stanzas, limit) ==
    /\ pc = "parseForward"
    /\ Len(cfg) < limit
    /\ \E st \in Stanzas :
          LET r == ParseHead(st, nextId) IN
          /\ cfg' = Append(cfg, [from |-> st.from, to |-> st.to, block |-> <<>>])
          /\ nextId' = nextId + 1
          /\ IF r.ok
             THEN /\ f' = r.f
                  /\ transports' = r.transports
                  /\ pc' = "parseBlock"
                  /\ UNCHANGED <<fs, ret>>
             ELSE ParseFails
    /\ UNCHANGED <<disk, i, plugins, startupHooks, shutdownHooks, su, sd>>

(* parseStanza: c.NextBlock() finds one more option; parseBlock reads it.  *)
ParseBlockStep(Opts) ==
    /\ pc = "parseBlock"
    /\ NumOpts < MaxOpts
    /\ \E o \in Opts :
          LET r == ParseBlock(f, o, nextId, disk) IN
          /\ cfg' = [cfg EXCEPT ![Len(cfg)].block = Append(@, o)]
          /\ IF r.ok
             THEN /\ f' = r.f
                  /\ nextId' = r.nid
                  /\ UNCHANGED <<transports, fs, ret, pc>>
             ELSE /\ ParseFails
                  /\ UNCHANGED nextId
    /\ UNCHANGED <<disk, i, plugins, startupHooks, shutdownHooks, su, sd>>

(* parseStanza: the block is over; the settings go to the targets, and     *)
(* parseForward appends the Forward.                                        *)
EndStanza ==
    /\ pc = "parseBlock"
    /\ fs' = Append(fs, [Propagate(f, transports) EXCEPT !.index = Len(fs)])
    /\ f' = NoForward
    /\ transports' = <<>>
    /\ pc' = "parseForward"
    /\ UNCHANGED <<disk, cfg, i, ret, plugins, startupHooks, shutdownHooks, nextId, su, sd>>

(* parseForward: c.Next() finds no more stanza; setup starts its loop.     *)
EndParse ==
    /\ pc = "parseForward"
    /\ pc' = "setup"
    /\ i' = 0
    /\ UNCHANGED <<disk, cfg, f, transports, fs, ret, plugins, startupHooks,
                   shutdownHooks, nextId, su, sd>>

(* setup, lines 33-35: the engine has too many targets.                    *)
SetupReject ==
    /\ pc = "setup"
    /\ i < Len(fs)
    /\ ForwardLen(fs[i + 1]) > max
    /\ ret' = "error"
    /\ pc' = "returned"
    /\ UNCHANGED <<disk, cfg, f, transports, fs, i, plugins, startupHooks,
                   shutdownHooks, nextId, su, sd>>

(* SetupRegister without the check of the number of targets before it.     *)
SetupRegisterUnchecked ==
    /\ pc = "setup"
    /\ i < Len(fs)
    /\ plugins' = Append(plugins, i + 1)
    /\ startupHooks' = Append(startupHooks, i + 1)
    /\ shutdownHooks' = Append(shutdownHooks, i + 1)
    /\ i' = i + 1
    /\ UNCHANGED <<disk, cfg, f, transports, fs, ret, pc, nextId, su, sd>>

(* setup, lines 37-49: the engine is added as a plugin, and its hooks are  *)
(* registered.  An engine is named by its place in fs.                      *)
SetupRegister ==
    /\ pc = "setup"
    /\ i < Len(fs)
    /\ ~(ForwardLen(fs[i + 1]) > max)
    /\ plugins' = Append(plugins, i + 1)
    /\ startupHooks' = Append(startupHooks, i + 1)
    /\ shutdownHooks' = Append(shutdownHooks, i + 1)
    /\ i' = i + 1
    /\ UNCHANGED <<disk, cfg, f, transports, fs, ret, pc, nextId, su, sd>>

(* setup, line 52 *)
SetupReturn ==
    /\ pc = "setup"
    /\ i = Len(fs)
    /\ ret' = "nil"
    /\ pc' = "returned"
    /\ UNCHANGED <<disk, cfg, f, transports, fs, i, plugins, startupHooks,
                   shutdownHooks, nextId, su, sd>>

(* The host runs the next registered startup hook.  Nothing here relies on *)
(* the host giving up after setup returned an error.                        *)
RunStartupHook ==
    /\ pc = "returned"
    /\ su < Len(startupHooks)
    /\ fs' = [fs EXCEPT ![startupHooks[su + 1]] = OnStartup(@)]
    /\ su' = su + 1
    /\ UNCHANGED <<pc, disk, cfg, f, transports, i, ret, plugins, startupHooks,
                   shutdownHooks, nextId, sd>>

(* The host, having run the startup hooks, runs the next shutdown hook.    *)
RunShutdownHook ==
    /\ pc = "returned"
    /\ su = Len(startupHooks)
    /\ sd < Len(shutdownHooks)
    /\ fs' = [fs EXCEPT ![shutdownHooks[sd + 1]] = OnShutdown(@)]
    /\ sd' = sd + 1
    /\ UNCHANGED <<pc, disk, cfg, f, transports, i, ret, plugins, startupHooks,
                   shutdownHooks, nextId, su>>

Setup == SetupReject \/ SetupRegister \/ SetupReturn
Hooks == RunStartupHook \/ RunShutdownHook

(* Corefiles around the limits of the configuration. *)
Init == InitWith(FilesOne)
Next ==
    \/ NextStanza(StanzasLimits, MaxStanzas)
    \/ ParseBlockStep(OptsLimits)
    \/ EndStanza
    \/ EndParse
    \/ Setup
    \/ Hooks
Spec == Init /\ [][Next]_vars

(* Several engines with their policies and probe intervals, through their  *)
(* whole life.                                                              *)
NextLife ==
    \/ NextStanza(StanzasLife, MaxStanzas)
    \/ ParseBlockStep(OptsLife)
    \/ EndStanza
    \/ EndParse
    \/ Setup
    \/ Hooks
SpecLife == Init /\ [][NextLife]_vars

(* One stanza with the transport options. *)
NextTransport ==
    \/ NextStanza(StanzasMixed, 1)
    \/ ParseBlockStep(OptsTransport)
    \/ EndStanza
SpecTransport == Init /\ [][NextTransport]_vars

(* One stanza whose block holds each option at most once. *)
NextOrder ==
    \/ NextStanza(StanzasPair, 1)
    \/ ParseBlockStep({o \in OptsOrder :
                          \A k \in DOMAIN Last(cfg).block : Last(cfg).block[k].name # o.name})
    \/ EndStanza
SpecOrder == Init /\ [][NextOrder]_vars

(* One stanza with except_file options, over every small file. *)
InitFile == InitWith(FilesAll)
NextFile ==
    \/ NextStanza({Stanza(Zone, <<Plain>>)}, 1)
    \/ ParseBlockStep(OptsFile)
SpecFile == InitFile /\ [][NextFile]_vars

----------------------------------------------------------------------------
(* What the Corefile says, read off the tokens alone *)

Block(k) == cfg[k].block
HasOpt(b, name) == \E j \in DOMAIN b : b[j].name = name
Engines == DOMAIN fs
Registered == Range(plugins) \cup Range(startupHooks) \cup Range(shutdownHooks)

NegativeInt(o) == Len(o.args) > 0 /\ Atoi(o.args[1]).ok /\ Atoi(o.args[1]).n < 0
NegativeDuration(o) ==
    Len(o.args) > 0 /\ ParseDuration(o.args[1]).ok /\ ParseDuration(o.args[1]).dur < 0

InvalidOpt(o, ndest) ==
    \/ o.name \in {"max_fails", "max_concurrent", "retry_failed"} /\ NegativeInt(o)
    \/ o.name \in {"health_check", "expire"} /\ NegativeDuration(o)
    \/ o.name = "retry_failed" /\ Len(o.args) > 0 /\ Atoi(o.args[1]).ok
          /\ Atoi(o.args[1]).n > ndest

InvalidStanza(st) ==
    \/ Len(st.to) > max
    \/ \E j \in DOMAIN st.to : st.to[j].scheme \notin {"", "dns", "tls"}
    \/ \E j \in DOMAIN st.block : InvalidOpt(st.block[j], Len(st.to))

(* C1: a Corefile with an invalid stanza (more than 15 destinations, a     *)
(* negative max_fails, health_check, expire, max_concurrent or             *)
(* retry_failed, a retry_failed above the stanza's destination count, a    *)
(* transport tag other than dns and tls) never makes setup return nil, and *)
(* the stanza's engine is never added as a plugin, never gets a hook, and  *)
(* none of its targets is ever started.                                     *)
C1_InvalidRejected ==
    \A k \in DOMAIN cfg :
        InvalidStanza(cfg[k]) =>
            /\ ret # "nil"
            /\ pc = "returned" => ret = "error"
            /\ k \notin Registered
            /\ k \in Engines => \A j \in DOMAIN fs[k].proxies : fs[k].proxies[j].starts = 0

C1_Witness ==
    /\ pc = "returned"
    /\ ret = "error"
    /\ Len(cfg) = 2
    /\ ~InvalidStanza(cfg[1])
    /\ \E j \in DOMAIN cfg[2].block :
          /\ cfg[2].block[j].name = "retry_failed"
          /\ Atoi(cfg[2].block[j].args[1]).n > Len(cfg[2].to)
    /\ plugins = <<>>

(* C2: every engine that setup registers has a retry limit of at most its  *)
(* number of targets, a concurrency limit of at least 0 and at most 15     *)
(* targets, whatever options its block held, in whatever order.            *)
C2_RegisteredEngineInvariant ==
    \A k \in Registered :
        /\ fs[k].maxFailedTries <= Len(fs[k].proxies)
        /\ fs[k].maxFailedTries >= 0
        /\ fs[k].maxConcurrent >= 0
        /\ Len(fs[k].proxies) <= max

C2_Witness ==
    \E k \in Registered :
        /\ ret = "nil"
        /\ Len(fs[k].proxies) = max
        /\ fs[k].maxFailedTries = 1
        /\ Len(Block(k)) = 3
        /\ Block(k)[1].name = "retry_failed"
        /\ Block(k)[2].name = "max_concurrent"
        /\ Block(k)[3].name = "retry_failed"
        /\ Block(k)[1] # Block(k)[3]

(* C8: whenever setup returns an error it has registered no plugin and no  *)
(* hook for any stanza.                                                     *)
C8_AllOrNothing ==
    ret = "error" => plugins = <<>> /\ startupHooks = <<>> /\ shutdownHooks = <<>>

(* C3 as stated: no accepted engine has both the force-TCP flag and the    *)
(* prefer-UDP flag.                                                         *)
C3_MutuallyExclusive ==
    \A k \in Engines : ~(fs[k].opts.forceTCP /\ fs[k].opts.preferUDP)

(* C3: the two transport preferences are independent flags: an accepted    *)
(* engine has force-TCP exactly when its block holds force_tcp, and        *)
(* prefer-UDP exactly when its block holds prefer_udp (both, when both     *)
(* are given).                                                              *)
C3_IndependentFlags ==
    \A k \in Engines :
        /\ fs[k].opts.forceTCP = HasOpt(Block(k), "force_tcp")
        /\ fs[k].opts.preferUDP = HasOpt(Block(k), "prefer_udp")

C3_Witness ==
    \E k \in Engines :
        /\ fs[k].opts.forceTCP
        /\ fs[k].opts.preferUDP
        /\ Len(Block(k)) = 2
        /\ Block(k)[1].name = "prefer_udp"

(* The argument of the last option of a name in a block, or the default.   *)
LastArg(b, name, default) ==
    IF HasOpt(b, name)
    THEN b[CHOOSE j \in DOMAIN b :
               b[j].name = name /\ \A l \in DOMAIN b : b[l].name = name => l <= j].args[1]
    ELSE default

(* C7: after a successful parse a target has a TLS configuration exactly   *)
(* when its destination carries the tls tag; the server name of that       *)
(* configuration is the one tls_servername gave, before or after the tls   *)
(* option; and every target has the engine's final expiry (the last        *)
(* expire option's, or the default) and final recursion-desired flag       *)
(* (off exactly when a health_check option said no_rec).                   *)
C7_TargetsGetSettings ==
    \A k \in Engines : \A j \in DOMAIN fs[k].proxies :
        LET t == fs[k].proxies[j] IN
        /\ (t.tlsConfig # <<>>) = (cfg[k].to[j].scheme = "tls")
        /\ t.tlsConfig # <<>> =>
               t.tlsConfig[1].ServerName = LastArg(Block(k), "tls_servername", "")
        /\ t.expire = fs[k].expire
        /\ t.expire = IF HasOpt(Block(k), "expire")
                      THEN ParseDuration(LastArg(Block(k), "expire", "")).dur
                      ELSE New(0).expire
        /\ t.rd = fs[k].opts.hcRecursionDesired
        /\ t.rd = ~(\E l \in DOMAIN Block(k) :
                       Block(k)[l].name = "health_check" /\ Len(Block(k)[l].args) > 1)

C7_Witness ==
    \E k \in Engines :
        /\ Len(fs[k].proxies) = 3
        /\ Len(Block(k)) = 3
        /\ Block(k)[1] = Opt("tls_servername", <<"sn1">>)
        /\ Block(k)[2] = Opt("tls", <<"cert", "key">>)
        /\ Block(k)[3] = Opt("health_check", <<"2s", "no_rec">>)
        /\ fs[k].proxies[1].tlsConfig = <<[ServerName |-> "sn1", nargs |-> 2]>>
        /\ fs[k].proxies[2].tlsConfig = <<>>
        /\ fs[k].proxies[2].rd = FALSE

(* C5: the startup hook of a registered engine starts each of its targets  *)
(* once, with the engine's probe interval, and its shutdown hook stops     *)
(* each of them once; no target is started or stopped otherwise, none is   *)
(* stopped without having been started, and once the host has run every    *)
(* startup hook and then every shutdown hook every started target is       *)
(* stopped.                                                                 *)
C5_Lifecycle ==
    /\ startupHooks = plugins
    /\ shutdownHooks = plugins
    /\ \A k \in Engines : \A j \in DOMAIN fs[k].proxies :
          LET t == fs[k].proxies[j] IN
          /\ t.starts = IF \E h \in 1 .. su : startupHooks[h] = k THEN 1 ELSE 0
          /\ t.stops = IF \E h \in 1 .. sd : shutdownHooks[h] = k THEN 1 ELSE 0
          /\ t.starts = 1 => t.interval = fs[k].hcInterval
          /\ t.stops <= t.starts
          /\ (su = Len(startupHooks) /\ sd = Len(shutdownHooks)) => t.stops = t.starts

C5_Witness ==
    /\ ret = "nil"
    /\ Len(plugins) = 2
    /\ su = 2
    /\ sd = 2
    /\ fs[1].hcInterval # fs[2].hcInterval
    /\ \A k \in Engines : \A j \in DOMAIN fs[k].proxies : fs[k].proxies[j].stops = 1

(* The policy of every parsed engine, in one state.                        *)
C6_PolicyState ==
    /\ \A k \in Engines :
          /\ fs[k].p.kind \in Policies
          /\ fs[k].p.kind = LastArg(Block(k), "policy", New(0).p.kind)
    /\ \A k \in DOMAIN cfg :
          (\E j \in DOMAIN Block(k) :
               /\ Block(k)[j].name = "policy"
               /\ (Len(Block(k)[j].args) = 0 \/ Block(k)[j].args[1] \notin Policies))
          => ret = "error" /\ fs = <<>>
    /\ \A k, l \in Engines : k # l => fs[k].p.id # fs[l].p.id

(* C6: every parsed engine holds one policy of random, round_robin and     *)
(* sequential, the one its last policy option names or else the default;   *)
(* a block with any other policy name fails the parse; no two engines      *)
(* hold the same policy object; and no step, the hooks included, changes   *)
(* the policy of an engine once parsed.                                     *)
C6_OnePolicyPerEngine ==
    /\ []C6_PolicyState
    /\ [][\A k \in Engines : k \in DOMAIN fs' => fs'[k].p = fs[k].p]_vars

C6_Witness ==
    /\ ret = "nil"
    /\ Len(plugins) = 2
    /\ su = 2
    /\ sd = 2
    /\ fs[1].p.kind = "round_robin"
    /\ fs[2].p.kind = "round_robin"
    /\ Len(Block(1)) = 2

(* parseStanza as a whole: the head, parseBlock for every option of the    *)
(* block in turn, and the propagation to the targets.                      *)
ParseStanza(st, block, content) ==
    LET h == ParseHead(st, 0)
        R[k \in 0 .. Len(block)] ==
            IF k = 0 THEN [ok |-> h.ok, f |-> h.f, nid |-> 1]
            ELSE LET prev == R[k - 1]
                 IN  IF ~prev.ok THEN prev
                     ELSE ParseBlock(prev.f, block[k], prev.nid, content)
        r == R[Len(block)]
    IN  IF r.ok THEN [ok |-> TRUE, f |-> Propagate(r.f, h.transports)]
        ELSE [ok |-> FALSE, f |-> r.f]

(* The Engine Configuration of a Forward, the exclusion list as a set.     *)
EngineConfig(fw) ==
    [maxfails |-> fw.maxfails, hcInterval |-> fw.hcInterval, opts |-> fw.opts,
     tlsServerName |-> fw.tlsServerName, tlsConfig |-> fw.tlsConfig,
     targetTLS |-> [j \in DOMAIN fw.proxies |-> fw.proxies[j].tlsConfig],
     expire |-> fw.expire, policy |-> fw.p.kind, maxConcurrent |-> fw.maxConcurrent,
     ErrLimitExceeded |-> fw.ErrLimitExceeded, maxFailedTries |-> fw.maxFailedTries,
     ignored |-> Range(fw.ignored)]

Reorder(b, perm) == [k \in DOMAIN b |-> b[perm[k]]]

(* C10: for a block that holds each option at most once, every order of    *)
(* its options gives the outcome the parse had: an error if it returned    *)
(* an error, and otherwise the same Engine Configuration.                  *)
C10_OrderIndependent ==
    /\ \A k \in Engines : \A perm \in Permutations(DOMAIN Block(k)) :
          LET r == ParseStanza(cfg[k], Reorder(Block(k), perm), disk) IN
          /\ r.ok
          /\ EngineConfig(r.f) = EngineConfig(fs[k])
    /\ (ret = "error" /\ cfg # <<>>) =>
          \A perm \in Permutations(DOMAIN Last(cfg).block) :
              ~ParseStanza(Last(cfg), Reorder(Last(cfg).block, perm), disk).ok

C10_Witness ==
    \E k \in Engines :
        /\ Len(Block(k)) = 3
        /\ Block(k)[1].name = "retry_failed"
        /\ Block(k)[2].name = "tls_servername"
        /\ Block(k)[3].name = "tls"
        /\ fs[k].maxFailedTries = 2
        /\ fs[k].tlsConfig.ServerName = "sn1"

(* What a file excludes, read off its text: a line counts when, without    *)
(* its comment, it is one word with no '/' or with exactly two.            *)
CommentFree(line) ==
    IF \E k \in DOMAIN line : line[k] = "#"
    THEN SubSeq(line, 1, (CHOOSE k \in DOMAIN line :
                             line[k] = "#" /\ \A j \in 1 .. (k - 1) : line[j] # "#") - 1)
    ELSE line

Inked(text) == {k \in DOMAIN text : text[k] \notin {" ", "\t"}}
Slashes(text) == {k \in DOMAIN text : text[k] = "/"}
Least(S) == CHOOSE x \in S : \A y \in S : x <= y
Greatest(S) == CHOOSE x \in S : \A y \in S : y <= x

HasContent(line) == Inked(CommentFree(line)) # {}

ExpectedOfLine(line) ==
    LET text == CommentFree(line)
        ink == Inked(text)
    IN  IF ink = {} \/ ink # Least(ink) .. Greatest(ink) THEN <<>>
        ELSE LET word == SubSeq(text, Least(ink), Greatest(ink))
                 sl == Slashes(word)
             IN  IF sl = {} THEN <<Normalize(word)>>
                 ELSE IF Cardinality(sl) = 2
                      THEN <<Normalize(SubSeq(word, Least(sl) + 1, Greatest(sl) - 1))>>
                      ELSE <<>>

LinesOf(content) ==
    LET nl == {k \in DOMAIN content : content[k] = "\n"}
        starts == {1} \cup {k + 1 : k \in nl}
        StartOf[n \in 1 .. Cardinality(starts)] ==
            CHOOSE x \in starts : Cardinality({y \in starts : y < x}) = n - 1
        EndOf(x) == IF \E k \in nl : k >= x
                    THEN Least({k \in nl : k >= x}) - 1
                    ELSE Len(content)
    IN  SelectSeq([n \in 1 .. Cardinality(starts) |->
                       [from |-> StartOf[n], text |-> SubSeq(content, StartOf[n], EndOf(StartOf[n]))]],
                  LAMBDA l : l.from <= Len(content))

ExpectedOfFile(content) ==
    LET lines == LinesOf(content)
        E[n \in 0 .. Len(lines)] ==
            IF n = 0 THEN <<>> ELSE E[n - 1] \o ExpectedOfLine(lines[n].text)
    IN  E[Len(lines)]

ContentLines(content) ==
    LET lines == LinesOf(content)
    IN  Cardinality({n \in DOMAIN lines : HasContent(lines[n].text)})

(* The except_file options read so far, all of them without an error.      *)
FilesRead == IF pc = "parseBlock" THEN Len(Last(cfg).block) ELSE 0

(* C4 as stated: every line with content left after its comment is         *)
(* removed contributes exactly one token.                                   *)
C4_EveryContentLine ==
    FilesRead > 0 => Len(f.ignored) = FilesRead * ContentLines(disk)

(* C4: reading an exclusion file appends, in file order, one normalized    *)
(* token for every line that without its comment is a single word with no  *)
(* '/' (the word) or with exactly two (the part between them); every       *)
(* other line appends nothing.                                              *)
C4_ExceptFileTokens ==
    FilesRead > 0 =>
        f.ignored = [k \in 1 .. (FilesRead * Len(ExpectedOfFile(disk))) |->
                        ExpectedOfFile(disk)[((k - 1) % Len(ExpectedOfFile(disk))) + 1]]

C4_Witness ==
    /\ FilesRead = 1
    /\ disk = <<"/", "a", "/", "\n", "B">>
    /\ f.ignored = << <<"a", ".">>, <<"b", ".">> >>

(* C9: no domain that the except_file scan hands to normalization is       *)
(* empty, so a file without "." never excludes the root domain.            *)
C9_NoEmptyDomain ==
    FilesRead > 0 =>
        /\ \A k \in DOMAIN ExceptFileDomains(disk) : ExceptFileDomains(disk)[k] # <<>>
        /\ \A k \in DOMAIN f.ignored : f.ignored[k] # <<".">>

====
